---------------------------- MODULE Spec2Model ----------------------------
(***************************************************************************)
(* MultiSO101Follower (multi_so101_follower.py): N single-arm followers    *)
(* and a dict of cameras composed into one device.  Strings are sequences  *)
(* of one-character strings, so that startswith / removeprefix / f-string  *)
(* concatenation are computed character by character.  Data dicts          *)
(* (actions, observations, results) are functions from keys to values;     *)
(* self.arms and self.cameras, whose iteration order the handlers depend   *)
(* on, are sequences in insertion order.                                   *)
(***************************************************************************)
EXTENDS Integers, Sequences, FiniteSets, TLC

VARIABLES config, phase, arm_names, arms, cameras, last

vars == <<config, phase, arm_names, arms, cameras, last>>

-----------------------------------------------------------------------------
(* Bounds *)

\* most arms of a device in the lifecycle specification
MaxArms == 2
\* most cameras of a device
MaxCams == 1
\* most arms of a device in the routing and naming specifications
MaxArmsRoute == 10

-----------------------------------------------------------------------------
(* Strings *)

DigitChars == <<"0", "1", "2", "3", "4", "5", "6", "7", "8", "9">>

\* a formatting that keeps the leading digit only
RECURSIVE DecWrong(_)
DecWrong(n) == IF n < 10 THEN <<DigitChars[n + 1]>>
               ELSE DecWrong(n \div 10)

\* str(idx) of a positive int, as the f-string f"arm{idx}" formats it

RECURSIVE Dec(_)
Dec(n) == IF n < 10 THEN <<DigitChars[n + 1]>>
          ELSE Dec(n \div 10) \o <<DigitChars[(n % 10) + 1]>>

\* f"arm{idx}"
ArmName(idx) == <<"a", "r", "m">> \o Dec(idx)

\* f"{arm_name}_"
ArmPrefix(arm_name) == arm_name \o <<"_">>

\* a startswith that tests the arm name and not the underscore after it
StartsWithLoose(key, prefix) ==
    /\ Len(key) >= Len(prefix) - 1
    /\ SubSeq(key, 1, Len(prefix) - 1) = SubSeq(prefix, 1, Len(prefix) - 1)

\* key.startswith(prefix)
StartsWith(key, prefix) ==
    /\ Len(key) >= Len(prefix)
    /\ SubSeq(key, 1, Len(prefix)) = prefix

\* key.removeprefix(prefix)
RemovePrefix(key, prefix) ==
    IF StartsWith(key, prefix) THEN SubSeq(key, Len(prefix) + 1, Len(key))
    ELSE key

\* f"{arm_name}_{key}"
Prefixed(arm_name, key) == ArmPrefix(arm_name) \o key

-----------------------------------------------------------------------------
(* Dicts *)

EmptyDict == [k \in {} |-> 0]

\* d.update(e): the entries of e replace and extend those of d
DictUpdate(d, e) ==
    [k \in DOMAIN d \cup DOMAIN e |-> IF k \in DOMAIN e THEN e[k] ELSE d[k]]

\* {f"{arm_name}_{key}": value for key, value in d.items()}
\* (prefixing is one-to-one on keys, so no entry of the comprehension
\* replaces another and the order of d does not matter)
PrefixKeys(arm_name, d) ==
    [nk \in {Prefixed(arm_name, k) : k \in DOMAIN d} |->
        d[CHOOSE k \in DOMAIN d : Prefixed(arm_name, k) = nk]]

\* {key.removeprefix(p): value for key, value in action.items() if key.startswith(p)}
\* (removeprefix is one-to-one on the keys that start with p)
ArmAction(arm_name, action) ==
    LET p == ArmPrefix(arm_name)
        mine == {k \in DOMAIN action : StartsWith(k, p)}
    IN [nk \in {RemovePrefix(k, p) : k \in mine} |->
           action[CHOOSE k \in mine : RemovePrefix(k, p) = nk]]

\* self.arms[arm_name] = arm on the insertion-ordered dict self.arms
ArmsSet(d, arm_name, arm) ==
    IF \E i \in 1..Len(d) : d[i].name = arm_name
    THEN [i \in 1..Len(d) |-> IF d[i].name = arm_name THEN arm ELSE d[i]]
    ELSE Append(d, arm)

-----------------------------------------------------------------------------
(* Configurations and inputs *)

Ports == {"/dev/ttyACM0", "/dev/ttyACM1"}

POS == <<".", "p", "o", "s">>
US == <<"_">>
ARM1 == <<"a", "r", "m", "1">>
ARM2 == <<"a", "r", "m", "2">>
ARM10 == <<"a", "r", "m", "1", "0">>

\* arm.bus.motors of every SO-101 arm (two of its motors)
MotorNames == {<<"s">>, <<"g">>}

\* f"{motor}.pos"
MotorPosKeys == {m \o POS : m \in MotorNames}

\* camera names a user may configure; the second is also a prefixed motor key
CamFront == <<"c", "a", "m">>
CamClash == ARM1 \o US \o <<"s">> \o POS
CamKeyPool == {CamFront, CamClash}

\* the key sequences of config.cameras (a dict: keys are distinct)
CamConfigs ==
    UNION {{c \in [1..n -> CamKeyPool] : \A i, j \in 1..n : i # j => c[i] # c[j]}
           : n \in 0..MaxCams}

MkConfig(has, ports, cams) ==
    [has_ports |-> has, arm_ports |-> ports, cameras |-> cams]

\* config.arm_ports missing (None), empty, or a list of at most n ports
PortLists(n) == UNION {[1..k -> Ports] : k \in 0..n}

\* lists of distinct-as-far-as-possible ports, one per length
PlainPortLists(n) ==
    {[i \in 1..k |-> IF i = 1 THEN "/dev/ttyACM0" ELSE "/dev/ttyACM1"] : k \in 0..n}

-----------------------------------------------------------------------------
(* The collaborators: SO101Follower and the camera drivers *)

NewArm(arm_name, port) ==
    [name |-> arm_name, port |-> port, connected |-> FALSE, calibrated |-> FALSE]

NewCam(cam_key) == [key |-> cam_key, connected |-> FALSE]

\* make_cameras_from_configs(config.cameras): one camera per configured key
make_cameras_from_configs(cam_keys) ==
    [j \in 1..Len(cam_keys) |-> NewCam(cam_keys[j])]

\* what a sub-device call that returns normally does to an arm
ArmEffect(arm, op, arg) ==
    CASE op = "connect" ->
           [arm EXCEPT !.connected = TRUE, !.calibrated = @ \/ arg]
      [] op = "calibrate" -> [arm EXCEPT !.calibrated = TRUE]
      [] op = "disconnect" -> [arm EXCEPT !.connected = FALSE]
      [] OTHER -> arm

\* what a sub-device call that raises does to an arm: nothing when it raises
\* at once, the bus left open when connect raises after opening it
ArmPartial(arm, op, out) ==
    IF op = "connect" /\ out = "raise_late"
    THEN [arm EXCEPT !.connected = TRUE]
    ELSE arm

CamEffect(cam, op) ==
    CASE op = "connect" -> [cam EXCEPT !.connected = TRUE]
      [] op = "disconnect" -> [cam EXCEPT !.connected = FALSE]
      [] OTHER -> cam

CamPartial(cam, op, out) ==
    IF op = "connect" /\ out = "raise_late"
    THEN [cam EXCEPT !.connected = TRUE]
    ELSE cam

ArmModes == {"plain", "other"}

\* what arm number idx returns: get_observation its motor positions (and in
\* mode "other" one more key), send_action the action it sent (in mode
\* "other" with the values of odd arms clipped to 0)
ArmReturn(idx, op, arg, mode) ==
    CASE op = "get_observation" ->
           IF mode = "plain"
           THEN [k \in MotorPosKeys |-> 10 * idx + (IF k[1] = "s" THEN 1 ELSE 2)]
           ELSE [k \in MotorPosKeys \cup {<<"t">>} |-> 20 * idx + Len(k)]
      [] op = "send_action" ->
           IF mode = "plain" \/ idx % 2 = 0 THEN arg
           ELSE [k \in DOMAIN arg |-> 0]
      [] OTHER -> EmptyDict

\* cam.async_read(): a frame
CamReturn(j, op) == 900 + j

-----------------------------------------------------------------------------
(* Running a handler's sub-device calls in order until one raises *)

ArmCall(i, op, arg) == [kind |-> "arm", idx |-> i, op |-> op, arg |-> arg]
CamCall(j, op) == [kind |-> "cam", idx |-> j, op |-> op, arg |-> FALSE]

\* the outcomes of the sub-device calls of one handler call: which call
\* raises (0: none), how, and what the arms return
Envs(maxCalls, kinds, modes) ==
    {e \in [failAt : 0..maxCalls, kind : kinds, mode : modes] :
        e.failAt = 0 => e.kind = "raise_early"}

Start == [arms |-> arms, cameras |-> cameras, calls |-> <<>>, rets |-> <<>>,
          raised |-> FALSE, ret |-> EmptyDict]

\* one sub-device call c with outcome out
Apply(st, c, out, env) ==
    LET dev == IF c.kind = "arm" THEN st.arms[c.idx].name ELSE st.cameras[c.idx].key
        entry == [kind |-> c.kind, dev |-> dev, op |-> c.op, arg |-> c.arg,
                  raised |-> out # "ok"]
        logged == [st EXCEPT !.calls = Append(@, entry)]
    IN IF c.kind = "arm"
       THEN IF out = "ok"
            THEN [logged EXCEPT
                    !.arms[c.idx] = ArmEffect(@, c.op, c.arg),
                    !.rets = Append(@, ArmReturn(c.idx, c.op, c.arg, env.mode))]
            ELSE [logged EXCEPT
                    !.arms[c.idx] = ArmPartial(@, c.op, out),
                    !.raised = TRUE]
       ELSE IF out = "ok"
            THEN [logged EXCEPT
                    !.cameras[c.idx] = CamEffect(@, c.op),
                    !.rets = Append(@, CamReturn(c.idx, c.op))]
            ELSE [logged EXCEPT
                    !.cameras[c.idx] = CamPartial(@, c.op, out),
                    !.raised = TRUE]

\* a runner that swallows a sub-device's exception and goes on
RECURSIVE RunCallsSwallow(_, _, _, _)
RunCallsSwallow(st, plan, k, env) ==
    IF k > Len(plan) THEN st
    ELSE LET out == IF env.failAt = k THEN env.kind ELSE "ok"
         IN RunCallsSwallow(Apply(st, plan[k], out, env), plan, k + 1, env)

RECURSIVE RunCalls(_, _, _, _)
RunCalls(st, plan, k, env) ==
    IF k > Len(plan) THEN st
    ELSE LET out == IF env.failAt = k THEN env.kind ELSE "ok"
             st1 == Apply(st, plan[k], out, env)
         IN IF out = "ok" THEN RunCalls(st1, plan, k + 1, env) ELSE st1

\* for arm_name, arm in self.arms.items(): arm.<op>(arg)
ForArms(op, arg) == [i \in 1..Len(arms) |-> ArmCall(i, op, arg)]

\* for cam in self.cameras.values(): cam.<op>()
ForCams(op) == [j \in 1..Len(cameras) |-> CamCall(j, op)]

-----------------------------------------------------------------------------
(* The handlers of MultiSO101Follower *)

\* the for loop of __init__ from index idx on
RECURSIVE InitLoop(_, _, _)
InitLoop(ports, idx, acc) ==
    IF idx > Len(ports) THEN acc
    ELSE LET arm_name == ArmName(idx)
         IN InitLoop(ports, idx + 1,
                [arm_names |-> Append(acc.arm_names, arm_name),
                 arms |-> ArmsSet(acc.arms, arm_name, NewArm(arm_name, ports[idx]))])

\* a test for a missing list only: config.arm_ports is None
NoPortsNoneOnly(cfg) == ~cfg.has_ports

\* not config.arm_ports
NoPorts(cfg) == ~cfg.has_ports \/ cfg.arm_ports = <<>>

\* all(...) of a sequence of booleans
RECURSIVE All(_)
All(s) == IF s = <<>> THEN TRUE
          ELSE IF ~Head(s) THEN FALSE ELSE All(Tail(s))

\* an is_connected that forgets the cameras
is_connected_arms_only == All([i \in 1..Len(arms) |-> arms[i].connected])

is_connected ==
    /\ All([i \in 1..Len(arms) |-> arms[i].connected])
    /\ All([j \in 1..Len(cameras) |-> cameras[j].connected])

is_calibrated == All([i \in 1..Len(arms) |-> arms[i].calibrated])

\* f"{arm_name}_{motor}.pos" for every arm and motor
motors_ft ==
    UNION {{Prefixed(arms[i].name, m \o POS) : m \in MotorNames} : i \in 1..Len(arms)}

cameras_ft == {cameras[j].key : j \in 1..Len(cameras)}

\* the keys of {**self._motors_ft, **self._cameras_ft}
observation_features == motors_ft \cup cameras_ft

action_features == motors_ft

\* a connect that drops the caller's flag for the default
connect_default_flag(calibrate, env) ==
    RunCalls(Start, ForArms("connect", TRUE) \o ForCams("connect"), 1, env)

connect(calibrate, env) ==
    RunCalls(Start, ForArms("connect", calibrate) \o ForCams("connect"), 1, env)

calibrate(env) == RunCalls(Start, ForArms("calibrate", FALSE), 1, env)

configure(env) == RunCalls(Start, ForArms("configure", FALSE), 1, env)

setup_motors(env) == RunCalls(Start, ForArms("setup_motors", FALSE), 1, env)

disconnect(env) ==
    RunCalls(Start, ForArms("disconnect", FALSE) \o ForCams("disconnect"), 1, env)

\* obs_dict after the first k sub-device reads
RECURSIVE ObsDict(_, _)
ObsDict(rets, k) ==
    IF k = 0 THEN EmptyDict
    ELSE IF k <= Len(arms)
    THEN DictUpdate(ObsDict(rets, k - 1), PrefixKeys(arms[k].name, rets[k]))
    ELSE DictUpdate(ObsDict(rets, k - 1),
                    [c \in {cameras[k - Len(arms)].key} |-> rets[k]])

get_observation(env) ==
    LET plan == ForArms("get_observation", FALSE) \o ForCams("async_read")
        st == RunCalls(Start, plan, 1, env)
    IN IF st.raised THEN st ELSE [st EXCEPT !.ret = ObsDict(st.rets, Len(plan))]

has_prefixes(action) ==
    \E i \in 1..Len(arm_names) : \E key \in DOMAIN action :
        StartsWith(key, ArmPrefix(arm_names[i]))

\* the directed branch from arm i on: the arms whose arm_action is not empty
RECURSIVE DirectedPlan(_, _)
DirectedPlan(action, i) ==
    IF i > Len(arms) THEN <<>>
    ELSE LET arm_action == ArmAction(arms[i].name, action)
         IN (IF DOMAIN arm_action # {}
             THEN <<ArmCall(i, "send_action", arm_action)>> ELSE <<>>)
            \o DirectedPlan(action, i + 1)

SendPlan(action) ==
    IF has_prefixes(action) THEN DirectedPlan(action, 1)
    ELSE ForArms("send_action", action)

\* a result that merges what the arms return without the arm prefix
RECURSIVE ResultNoPrefix(_, _, _)
ResultNoPrefix(plan, rets, k) ==
    IF k = 0 THEN EmptyDict
    ELSE DictUpdate(ResultNoPrefix(plan, rets, k - 1), rets[k])

\* result after the first k calls
RECURSIVE Result(_, _, _)
Result(plan, rets, k) ==
    IF k = 0 THEN EmptyDict
    ELSE DictUpdate(Result(plan, rets, k - 1),
                    PrefixKeys(arms[plan[k].idx].name, rets[k]))

send_action(action, env) ==
    LET plan == SendPlan(action)
        st == RunCalls(Start, plan, 1, env)
    IN IF st.raised THEN st ELSE [st EXCEPT !.ret = Result(plan, st.rets, Len(plan))]

-----------------------------------------------------------------------------
(* Actions *)

NoError == ""
PortsError == "arm_ports must contain at least one port"

Call(op, arg, calls, rets, raised, ret, error) ==
    [op |-> op, arg |-> arg, calls |-> calls, rets |-> rets, raised |-> raised,
     ret |-> ret, error |-> error]

\* a handler call ends: the sub-devices are as it left them
Commit(op, arg, st) ==
    /\ arms' = st.arms
    /\ cameras' = st.cameras
    /\ last' = Call(op, arg, st.calls, st.rets, st.raised, st.ret, NoError)
    /\ UNCHANGED <<config, phase, arm_names>>

\* __init__ after super().__init__(config), which is the Robot base class's
Construct ==
    /\ phase = "new"
    /\ IF NoPorts(config)
       THEN /\ phase' = "failed"
            /\ last' = Call("__init__", FALSE, <<>>, <<>>, TRUE, EmptyDict, PortsError)
            /\ UNCHANGED <<config, arm_names, arms, cameras>>
       ELSE LET built == InitLoop(config.arm_ports, 1, [arm_names |-> <<>>, arms |-> <<>>])
            IN /\ phase' = "ready"
               /\ arm_names' = built.arm_names
               /\ arms' = built.arms
               /\ cameras' = make_cameras_from_configs(config.cameras)
               /\ last' = Call("__init__", FALSE, <<>>, <<>>, FALSE, EmptyDict, NoError)
               /\ UNCHANGED config

Late == {"raise_early", "raise_late"}
Early == {"raise_early"}
Plain == {"plain"}

Connect ==
    /\ phase = "ready"
    /\ \E flag \in BOOLEAN : \E env \in Envs(Len(arms) + Len(cameras), Late, Plain) :
          Commit("connect", flag, connect(flag, env))

Disconnect ==
    /\ phase = "ready"
    /\ \E env \in Envs(Len(arms) + Len(cameras), Early, Plain) :
          Commit("disconnect", FALSE, disconnect(env))

Calibrate ==
    /\ phase = "ready"
    /\ \E env \in Envs(Len(arms), Early, Plain) :
          Commit("calibrate", FALSE, calibrate(env))

Configure ==
    /\ phase = "ready"
    /\ \E env \in Envs(Len(arms), Early, Plain) :
          Commit("configure", FALSE, configure(env))

SetupMotors ==
    /\ phase = "ready"
    /\ \E env \in Envs(Len(arms), Early, Plain) :
          Commit("setup_motors", FALSE, setup_motors(env))

GetObservation ==
    /\ phase = "ready"
    /\ \E env \in Envs(Len(arms) + Len(cameras), Early, ArmModes) :
          Commit("get_observation", FALSE, get_observation(env))

SendAction(actions) ==
    /\ phase = "ready"
    /\ \E action \in actions :
          \E env \in Envs(Len(SendPlan(action)), Early, ArmModes) :
             Commit("send_action", action, send_action(action, env))

-----------------------------------------------------------------------------
(* Specifications *)

Values == {1, 2}

\* every dict with keys among pool
Dicts(pool) == UNION {[d -> Values] : d \in SUBSET pool}

SPOS == <<"s">> \o POS

\* in the lifecycle: no entry, a broadcast entry, an entry for arm1
LifeActions ==
    {EmptyDict, [k \in {SPOS} |-> 1], [k \in {ARM1 \o US \o SPOS} |-> 2]}

RouteKeyPool ==
    {SPOS,
     ARM1 \o US \o SPOS,
     ARM2 \o US \o SPOS,
     ARM10 \o US \o SPOS,
     ARM1 \o SPOS,
     ARM1 \o US \o ARM2 \o US \o SPOS,
     ARM1 \o US}

NoCall == Call("none", FALSE, <<>>, <<>>, FALSE, EmptyDict, NoError)

InitWith(configs) ==
    /\ config \in configs
    /\ phase = "new"
    /\ arm_names = <<>>
    /\ arms = <<>>
    /\ cameras = <<>>
    /\ last = NoCall

\* the lifecycle: any sequence of calls on a device of a few arms and cameras
LifeConfigs ==
    {MkConfig(FALSE, <<>>, c) : c \in CamConfigs}
    \cup {MkConfig(TRUE, p, c) : p \in PlainPortLists(MaxArms), c \in CamConfigs}

Init == InitWith(LifeConfigs)

Next ==
    \/ Construct
    \/ Connect
    \/ Disconnect
    \/ Calibrate
    \/ Configure
    \/ SetupMotors
    \/ GetObservation
    \/ SendAction(LifeActions)

Spec == Init /\ [][Next]_vars

\* routing: one send_action call on a freshly constructed device of up to
\* MaxArmsRoute arms (send_action changes nothing a later call reads)
RouteConfigs ==
    {MkConfig(TRUE, p, <<CamFront>>) : p \in PlainPortLists(MaxArmsRoute)}

InitRoute == InitWith(RouteConfigs)

Fresh == last.op = "__init__"

NextRoute ==
    \/ Construct
    \/ Fresh /\ SendAction(Dicts(RouteKeyPool))

SpecRoute == InitRoute /\ [][NextRoute]_vars

\* naming: construction from every list of up to MaxArmsRoute ports
NamingConfigs ==
    {MkConfig(FALSE, <<>>, <<CamFront>>)}
    \cup {MkConfig(TRUE, p, <<CamFront>>) : p \in PortLists(MaxArmsRoute)}

InitNaming == InitWith(NamingConfigs)

NextNaming == Construct

SpecNaming == InitNaming /\ [][NextNaming]_vars

-----------------------------------------------------------------------------
(* Vocabulary of the properties *)

\* key is name, an underscore, and a rest
Addressed(key, name) ==
    /\ Len(key) >= Len(name) + 1
    /\ \A c \in 1..Len(name) : key[c] = name[c]
    /\ key[Len(name) + 1] = "_"

\* the rest of a key addressed to name
Rest(key, name) == [c \in 1..(Len(key) - Len(name) - 1) |-> key[c + Len(name) + 1]]

ArmIds == 1..Len(arms)
CamIds == 1..Len(cameras)

\* the position in self.arms of the arm called dev
ArmOf(dev) == CHOOSE i \in ArmIds : arms[i].name = dev

\* the entries of action addressed to arm i
Mine(action, i) == {k \in DOMAIN action : Addressed(k, arms[i].name)}

Returned(op) == last.op = op /\ ~last.raised

\* d is the union over the calls of last of what each returned, every key
\* behind the name of the arm called and an underscore
UnionOfPrefixed(d) ==
    /\ DOMAIN d = UNION {{last.calls[a].dev \o <<"_">> \o k : k \in DOMAIN last.rets[a]}
                         : a \in 1..Len(last.calls)}
    /\ \A a \in 1..Len(last.calls) : \A k \in DOMAIN last.rets[a] :
          d[last.calls[a].dev \o <<"_">> \o k] = last.rets[a][k]

\* "1", "2", ... as written in decimal
Numerals ==
    << <<"1">>, <<"2">>, <<"3">>, <<"4">>, <<"5">>, <<"6">>, <<"7">>, <<"8">>,
       <<"9">>, <<"1", "0">>, <<"1", "1">>, <<"1", "2">> >>

-----------------------------------------------------------------------------
(* Properties *)

\* C1: a send_action call that returns, with an action no key of which is
\* addressed to an existing arm, has called send_action on every arm exactly
\* once, in arm order, each time with the whole action, and returns the union
\* of the arms' results, every key behind its arm's prefix.
C1_Broadcast ==
    (/\ Returned("send_action")
     /\ \A i \in ArmIds : Mine(last.arg, i) = {})
    => /\ Len(last.calls) = Len(arms)
       /\ \A i \in ArmIds :
             last.calls[i] = [kind |-> "arm", dev |-> arms[i].name,
                              op |-> "send_action", arg |-> last.arg,
                              raised |-> FALSE]
       /\ UnionOfPrefixed(last.ret)

\* a broadcast of a non-empty action to three or more arms, a key of which
\* names an arm the device does not have
C1_Witness ==
    /\ Returned("send_action")
    /\ \A i \in ArmIds : Mine(last.arg, i) = {}
    /\ Len(arms) >= 3
    /\ Len(arms) < 10
    /\ ARM10 \o US \o SPOS \in DOMAIN last.arg
    /\ Len(last.calls) = Len(arms)
    /\ last.ret # EmptyDict

\* C2: a send_action call that returns, with an action some key of which is
\* addressed to an existing arm, has called exactly the arms some entry is
\* addressed to, once each and in arm order, each with exactly its own entries,
\* prefix stripped and values unchanged, and returns the union of the results,
\* every key behind the prefix of the arm that produced it.
C2_Directed ==
    (/\ Returned("send_action")
     /\ \E i \in ArmIds : Mine(last.arg, i) # {})
    => /\ \A a \in 1..Len(last.calls) :
             /\ last.calls[a].kind = "arm"
             /\ last.calls[a].op = "send_action"
             /\ \E i \in ArmIds : arms[i].name = last.calls[a].dev
       /\ \A a, b \in 1..Len(last.calls) :
             a < b => ArmOf(last.calls[a].dev) < ArmOf(last.calls[b].dev)
       /\ \A i \in ArmIds :
             (Mine(last.arg, i) # {})
                <=> \E a \in 1..Len(last.calls) : last.calls[a].dev = arms[i].name
       /\ \A a \in 1..Len(last.calls) :
             LET i == ArmOf(last.calls[a].dev)
                 got == last.calls[a].arg
             IN /\ DOMAIN got = {Rest(k, arms[i].name) : k \in Mine(last.arg, i)}
                /\ \A k \in Mine(last.arg, i) :
                      got[Rest(k, arms[i].name)] = last.arg[k]
       /\ UnionOfPrefixed(last.ret)

\* ten arms or more, entries for arm1 and for arm10 with different values,
\* and no entry for arm2
C2_Witness ==
    /\ Returned("send_action")
    /\ Len(arms) >= 10
    /\ DOMAIN last.arg = {ARM1 \o US \o SPOS, ARM10 \o US \o SPOS, SPOS}
    /\ last.arg[ARM1 \o US \o SPOS] # last.arg[ARM10 \o US \o SPOS]
    /\ Len(last.calls) = 2
    /\ last.calls[1].arg # last.calls[2].arg
    /\ DOMAIN last.ret = {ARM1 \o US \o SPOS, ARM10 \o US \o SPOS}

\* C3: a device constructed from N ports has N arms, the i-th named "arm<i>"
\* and owning the i-th port, arm_names lists the names in that order, and the
\* names are pairwise distinct.
C3_ArmNaming ==
    phase = "ready"
    => /\ Len(arms) = Len(config.arm_ports)
       /\ Len(arm_names) = Len(config.arm_ports)
       /\ \A i \in 1..Len(config.arm_ports) :
             /\ arm_names[i] = <<"a", "r", "m">> \o Numerals[i]
             /\ arms[i].name = arm_names[i]
             /\ arms[i].port = config.arm_ports[i]
       /\ \A i, j \in 1..Len(arm_names) : i # j => arm_names[i] # arm_names[j]

\* ten arms, the first two on the same port
C3_Witness ==
    /\ phase = "ready"
    /\ Len(config.arm_ports) = 10
    /\ config.arm_ports[1] = config.arm_ports[2]
    /\ arm_names[10] = ARM10

\* C5: construction fails exactly when arm_ports is missing or empty, with the
\* ValueError and no arm and no camera created; a constructed device has at
\* least one arm.
C5_EmptyPorts ==
    /\ last.op = "__init__"
       => /\ last.raised <=> (~config.has_ports \/ Len(config.arm_ports) = 0)
          /\ last.raised
             => /\ last.error = "arm_ports must contain at least one port"
                /\ phase = "failed"
    /\ phase = "failed" => arms = <<>> /\ cameras = <<>> /\ arm_names = <<>>
    /\ phase = "ready" => Len(arms) >= 1

\* construction from an empty list of ports with a camera configured
C5_Witness ==
    /\ phase = "failed"
    /\ config.has_ports
    /\ config.arm_ports = <<>>
    /\ config.cameras # <<>>
    /\ last.raised

\* C6: is_connected is true exactly when every arm's bus and every camera is
\* connected, and is_calibrated exactly when every arm is calibrated.
C6_Aggregates ==
    phase = "ready"
    => /\ is_connected <=> /\ \A i \in ArmIds : arms[i].connected
                           /\ \A j \in CamIds : cameras[j].connected
       /\ is_calibrated <=> \A i \in ArmIds : arms[i].calibrated

\* after a send_action call: every arm connected and calibrated but for the
\* one camera
C6_Witness ==
    /\ phase = "ready"
    /\ last.op = "send_action"
    /\ Len(arms) >= 2
    /\ \A i \in ArmIds : arms[i].connected
    /\ \E j \in CamIds : ~cameras[j].connected
    /\ ~is_connected
    /\ is_calibrated

\* C4: a get_observation call that returns holds, for every arm and key the
\* arm returned, that value under the prefixed key, and one entry per camera
\* under the camera's key, and nothing else; when every arm returns exactly
\* its motor position keys, the keys are those of observation_features and
\* the arms' part of them those of action_features.
C4_Observation ==
    Returned("get_observation")
    => /\ \A i \in ArmIds : \A k \in DOMAIN last.rets[i] :
             /\ arms[i].name \o <<"_">> \o k \in DOMAIN last.ret
             /\ last.ret[arms[i].name \o <<"_">> \o k] = last.rets[i][k]
       /\ \A j \in CamIds :
             /\ cameras[j].key \in DOMAIN last.ret
             /\ last.ret[cameras[j].key] = last.rets[Len(arms) + j]
       /\ DOMAIN last.ret =
             UNION {{arms[i].name \o <<"_">> \o k : k \in DOMAIN last.rets[i]}
                    : i \in ArmIds}
             \cup {cameras[j].key : j \in CamIds}
       /\ (\A i \in ArmIds : DOMAIN last.rets[i] = MotorPosKeys)
          => /\ DOMAIN last.ret = observation_features
             /\ UNION {{arms[i].name \o <<"_">> \o k : k \in DOMAIN last.rets[i]}
                       : i \in ArmIds} = action_features

\* no camera is named like a prefixed key of an arm
NoClash ==
    \A j \in CamIds : \A i \in ArmIds : ~Addressed(cameras[j].key, arms[i].name)

\* C4 on the devices without such a camera
C4_ApartFromClash == NoClash => C4_Observation

\* C7: a connect call that returns has called connect on every arm once, in
\* arm order and with the caller's flag, then on every camera once, and
\* leaves is_connected true.
C7_ConnectFanOut ==
    Returned("connect")
    => /\ Len(last.calls) = Len(arms) + Len(cameras)
       /\ \A i \in ArmIds :
             last.calls[i] = [kind |-> "arm", dev |-> arms[i].name, op |-> "connect",
                              arg |-> last.arg, raised |-> FALSE]
       /\ \A j \in CamIds :
             /\ last.calls[Len(arms) + j].kind = "cam"
             /\ last.calls[Len(arms) + j].dev = cameras[j].key
             /\ last.calls[Len(arms) + j].op = "connect"
       /\ is_connected

\* connect(False) on two arms or more and a camera
C7_Witness ==
    /\ Returned("connect")
    /\ last.arg = FALSE
    /\ Len(arms) >= 2
    /\ Len(cameras) >= 1
    /\ Len(last.calls) = Len(arms) + Len(cameras)
    /\ ~is_calibrated

\* sub-device number j of connect's order: the arms, then the cameras
Sub(j) == IF j <= Len(arms) THEN arms[j] ELSE cameras[j - Len(arms)]
SubName(j) == IF j <= Len(arms) THEN arms[j].name ELSE cameras[j - Len(arms)].key
SubIds == 1..(Len(arms) + Len(cameras))

\* a step that is a connect call in which the k-th sub-device's connect raises
ConnectRaisesAt(k) ==
    /\ last'.op = "connect"
    /\ k <= Len(last'.calls)
    /\ last'.calls[k].raised

\* the exception propagates, the sub-devices before the k-th were called in
\* order and are connected, those after it are not called and not touched
NoRecovery(k) ==
    /\ last'.raised
    /\ Len(last'.calls) = k
    /\ \A j \in 1..k : last'.calls[j].dev = SubName(j) /\ last'.calls[j].op = "connect"
    /\ \A j \in 1..(k - 1) : ~last'.calls[j].raised /\ Sub(j)'.connected
    /\ \A j \in SubIds : j > k => Sub(j)' = Sub(j)

\* C8 as claimed: when the k-th sub-device's connect raises, NoRecovery and
\* is_connected is false.
C8_Original ==
    [][\A k \in SubIds : ConnectRaisesAt(k) => NoRecovery(k) /\ ~is_connected']_vars

\* C8: when the k-th sub-device's connect raises, NoRecovery, and
\* is_connected is true exactly when the k-th sub-device is left connected
\* and every sub-device after it was connected already (so not always false).
C8_NoRecovery ==
    [][\A k \in SubIds :
          ConnectRaisesAt(k)
          => /\ NoRecovery(k)
             /\ is_connected' <=> /\ Sub(k)'.connected
                                  /\ \A j \in SubIds : j > k => Sub(j).connected]_vars

\* the second arm's connect raised: the first arm is connected, the camera is not
C8_Witness ==
    /\ last.op = "connect"
    /\ last.raised
    /\ Len(last.calls) = 2
    /\ last.calls[2].raised
    /\ Len(arms) >= 2
    /\ arms[1].connected
    /\ ~arms[2].connected
    /\ Len(cameras) >= 1
    /\ ~cameras[1].connected
    /\ ~is_connected

=============================================================================
